---- MODULE Spec2Model ----
(***************************************************************************)
(* State-machine model of src/src/main.rs: the ai-cli command dispatch of  *)
(* main, the one-shot request send_ai_request (summarize, translate) and   *)
(* the interactive chat loop with its transcript `history`.                *)
(*                                                                         *)
(* Strings are sequences of characters (one-character strings); a literal  *)
(* of the program that is never inspected character by character is a      *)
(* single token of such a sequence.                                        *)
(***************************************************************************)
EXTENDS Integers, Sequences, FiniteSets, TLC

VARIABLES
    command,     \* cli.command: which subcommand was parsed
    argText,     \* the optional positional text of ask/summarize/translate
    to,          \* Translate's --to option
    chatModel,   \* Chat's --model option
    keyPresent,  \* whether AI_API_KEY is set in the process environment
    pc,          \* position of main: start, oneshot, await, sending, done
    history,     \* the chat transcript (Vec of {role, content})
    input,       \* the chat loop's `input` after trim()
    turnStart,   \* the transcript as it was when the current line was read
    res,         \* outcome of the last send(): none, neterr or an http response
    net,         \* the POSTs issued so far, each with its model and messages
    inflight,    \* number of POSTs whose send().await has not returned yet
    stdout,      \* what was printed for the operator, in order
    result       \* how the process ended (or "running")

vars == <<command, argText, to, chatModel, keyPresent, pc, history, input,
          turnStart, res, net, inflight, stdout, result>>

----------------------------------------------------------------------------
(* Bounds of the model *)

\* number of chat turns (POSTs of one chat session) explored
MaxTurns == 3

----------------------------------------------------------------------------
(* Program constants *)

MaxTokens == 200

DefaultModel == "gpt-4o-mini"

exit == <<"e", "x", "i", "t">>

SummarizeTask == <<"Summarize the following text briefly:">>

TranslateTask(lang) == <<"Translate the following text into ", lang, ":">>

----------------------------------------------------------------------------
(* Pure string functions of the standard library, as the program uses them *)

\* char::is_whitespace on the characters that occur here
IsWhitespace(c) == c \in {" ", "\n", "\t", "\r"}

RECURSIVE TrimStart(_)
TrimStart(s) ==
    IF s = <<>> THEN <<>>
    ELSE IF IsWhitespace(Head(s)) THEN TrimStart(Tail(s))
    ELSE s

RECURSIVE TrimEnd(_)
TrimEnd(s) ==
    IF s = <<>> THEN <<>>
    ELSE IF IsWhitespace(s[Len(s)]) THEN TrimEnd(SubSeq(s, 1, Len(s) - 1))
    ELSE s

\* str::trim
trim(s) == TrimEnd(TrimStart(s))

\* u8::to_ascii_lowercase on the letters that occur here
to_ascii_lowercase(c) ==
    CASE c = "E" -> "e"
      [] c = "X" -> "x"
      [] c = "I" -> "i"
      [] c = "T" -> "t"
      [] c = "H" -> "h"
      [] c = "S" -> "s"
      [] OTHER -> c

\* a plausible slip: an exact comparison
eq_exact(a, b) == a = b

\* str::eq_ignore_ascii_case
eq_ignore_ascii_case(a, b) ==
    /\ Len(a) = Len(b)
    /\ \A i \in 1..Len(a) : to_ascii_lowercase(a[i]) = to_ascii_lowercase(b[i])

\* StatusCode::is_success
is_success(status) == status >= 200 /\ status <= 299

----------------------------------------------------------------------------
(* Values *)

None == [some |-> FALSE, val |-> <<>>]

Some(v) == [some |-> TRUE, val |-> v]

Commands == {"Ask", "Summarize", "Translate", "Chat"}

\* what read_line leaves in the buffer: nothing at end of input, else a line
\* with its newline
Lines ==
    { <<>>,
      <<"\n">>,
      <<" ", "h", "i", " ", "\n">>,
      <<"e", "x", "i", "t", "\n">>,
      <<" ", "E", "x", "I", "t", "\n">>,
      <<"e", "x", "i", "t", "s", "\n">> }

\* outcomes of a read on stdin: an io error, or the text read
StdinReads(texts) ==
    {[ok |-> FALSE, val |-> <<>>]} \cup {[ok |-> TRUE, val |-> t] : t \in texts}

StdinTexts == { <<>>, <<"f", "o", "x", "\n">> }

ArgTexts == { <<"h", "i">> }

Choice(content) == [message |-> [content |-> content]]

\* response bodies: the raw text, whether it is JSON, whether the JSON object
\* has a well-formed "choices" array, and that array
Bodies ==
    { [text |-> <<"invalid_api_key">>, isJson |-> FALSE, hasChoices |-> FALSE,
       choices |-> <<>>],
      [text |-> <<"{error}">>, isJson |-> TRUE, hasChoices |-> FALSE,
       choices |-> <<>>],
      [text |-> <<"{choices:[]}">>, isJson |-> TRUE, hasChoices |-> TRUE,
       choices |-> <<>>],
      [text |-> <<"{choices:[ ok ]}">>, isJson |-> TRUE, hasChoices |-> TRUE,
       choices |-> <<Choice(<<" ", "o", "k", " ">>)>>],
      [text |-> <<"{choices:[no, ok ]}">>, isJson |-> TRUE, hasChoices |-> TRUE,
       choices |-> <<Choice(<<"n", "o">>), Choice(<<" ", "o", "k", " ">>)>>] }

Statuses == {200, 401}

NoBody == [text |-> <<>>, isJson |-> FALSE, hasChoices |-> FALSE, choices |-> <<>>]

NoRes == [kind |-> "none", status |-> 0, body |-> NoBody]

NetErr == [kind |-> "neterr", status |-> 0, body |-> NoBody]

Http(status, body) == [kind |-> "http", status |-> status, body |-> body]

\* what send().await can produce
SendOutcomes == {NetErr} \cup {Http(s, b) : s \in Statuses, b \in Bodies}

Running == [kind |-> "running", status |-> 0, text |-> <<>>]

Ended(kind) == [kind |-> kind, status |-> 0, text |-> <<>>]

Out(kind, text) == [kind |-> kind, text |-> text]

----------------------------------------------------------------------------
(* Helpers translated from the source *)

\* serde's deserialization of the body into ApiResponse
from_json(body) ==
    [ok |-> body.isJson /\ body.hasChoices, choices |-> body.choices]

\* a plausible slip: the environment lookup replaced by a default
EnvVarOrDefault == [ok |-> TRUE]

\* std::env::var("AI_API_KEY")
EnvVar == [ok |-> keyPresent]

UserMessage(content) == [role |-> "user", content |-> content]

\* a plausible slip: the reply trimmed as `ask` does
AssistantMessageTrimmed(choice) ==
    [role |-> "assistant", content |-> trim(choice.message.content)]

AssistantMessage(choice) ==
    [role |-> "assistant", content |-> choice.message.content]

\* a plausible slip: only the new message is sent
PayloadLastOnly(model, messages) ==
    [model |-> model, messages |-> <<messages[Len(messages)]>>,
     max_tokens |-> MaxTokens]

\* the JSON request body
Payload(model, messages) ==
    [model |-> model, messages |-> messages, max_tokens |-> MaxTokens]

\* format!("{}\n\n{}", task, user_input)
full_prompt(task, user_input) == task \o <<"\n", "\n">> \o user_input

\* get_input_or_stdin: the argument if given, else stdin read to its end
get_input_or_stdin(opt, read) ==
    IF opt.some THEN [ok |-> TRUE, val |-> opt.val] ELSE read

\* the prompt get_input_or_stdin prints when it reads stdin
InputPrompt(opt, prompt) ==
    IF opt.some THEN <<>> ELSE <<Out("prompt", <<prompt>>)>>

----------------------------------------------------------------------------
(* Initial state: the parsed command line and the environment *)

Init ==
    /\ command \in Commands
    /\ argText \in IF command = "Chat" THEN {None}
                   ELSE {None} \cup {Some(t) : t \in ArgTexts}
    /\ to \in IF command = "Translate" THEN {"en", "fr"} ELSE {"en"}
    /\ chatModel = DefaultModel
    /\ keyPresent \in BOOLEAN
    /\ pc = "start"
    /\ history = <<>>
    /\ input = <<>>
    /\ turnStart = <<>>
    /\ res = NoRes
    /\ net = <<>>
    /\ inflight = 0
    /\ stdout = <<>>
    /\ result = Running

----------------------------------------------------------------------------
(* One-shot commands *)

\* send_ai_request up to the suspension at send().await
send_ai_request(user_input, task, model) ==
    IF ~EnvVar.ok
    THEN /\ pc' = "done"
         /\ result' = Ended("MissingApiKey")
         /\ UNCHANGED <<net, inflight>>
    ELSE /\ net' = Append(net,
                Payload(model, <<UserMessage(full_prompt(task, user_input))>>))
         /\ inflight' = inflight + 1
         /\ pc' = "oneshot"
         /\ UNCHANGED result

\* the rest of send_ai_request, once send().await has returned
SendAiResponse ==
    /\ pc = "oneshot"
    /\ \E r \in SendOutcomes :
        /\ res' = r
        /\ inflight' = inflight - 1
        /\ pc' = "done"
        /\ IF r.kind = "neterr"
           THEN /\ result' = Ended("NetworkError")
                /\ UNCHANGED stdout
           ELSE IF ~is_success(r.status)
           THEN /\ result' = [kind |-> "ApiError", status |-> r.status,
                              text |-> r.body.text]
                /\ UNCHANGED stdout
           ELSE IF ~from_json(r.body).ok
           THEN /\ result' = Ended("JsonError")
                /\ UNCHANGED stdout
           ELSE IF from_json(r.body).choices # <<>>
           THEN /\ stdout' = stdout \o
                      << Out("header", <<"=== AI Response ===">>),
                         Out("content", from_json(r.body).choices[1].message.content),
                         Out("footer", <<"===">>) >>
                /\ result' = Ended("Ok")
           ELSE /\ stdout' = Append(stdout,
                      Out("notice", <<"No response received from AI.">>))
                /\ result' = Ended("Ok")
    /\ UNCHANGED <<command, argText, to, chatModel, keyPresent, history, input,
                   turnStart, net>>

\* Commands::Summarize
Summarize ==
    /\ pc = "start"
    /\ command = "Summarize"
    /\ \E read \in StdinReads(StdinTexts) :
        LET input_text == get_input_or_stdin(argText, read)
        IN  /\ stdout' = stdout \o
                  InputPrompt(argText, "Paste text to summarize (Ctrl+D to finish):")
            /\ IF ~input_text.ok
               THEN /\ pc' = "done"
                    /\ result' = Ended("IoError")
                    /\ UNCHANGED <<net, inflight>>
               ELSE send_ai_request(input_text.val, SummarizeTask, DefaultModel)
    /\ UNCHANGED <<command, argText, to, chatModel, keyPresent, history, input,
                   turnStart, res>>

\* Commands::Translate
Translate ==
    /\ pc = "start"
    /\ command = "Translate"
    /\ \E read \in StdinReads(StdinTexts) :
        LET input_text == get_input_or_stdin(argText, read)
        IN  /\ stdout' = stdout \o
                  InputPrompt(argText, "Paste text to translate (Ctrl+D to finish):")
            /\ IF ~input_text.ok
               THEN /\ pc' = "done"
                    /\ result' = Ended("IoError")
                    /\ UNCHANGED <<net, inflight>>
               ELSE send_ai_request(input_text.val, TranslateTask(to), DefaultModel)
    /\ UNCHANGED <<command, argText, to, chatModel, keyPresent, history, input,
                   turnStart, res>>

\* the `_ => {}` arm of main's match: Commands::Ask has no arm of its own
Ask ==
    /\ pc = "start"
    /\ command = "Ask"
    /\ pc' = "done"
    /\ result' = Ended("Ok")
    /\ UNCHANGED <<command, argText, to, chatModel, keyPresent, history, input,
                   turnStart, res, net, inflight, stdout>>

----------------------------------------------------------------------------
(* The interactive chat loop *)

\* Commands::Chat up to the loop: the banner and the empty history
ChatStart ==
    /\ pc = "start"
    /\ command = "Chat"
    /\ stdout' = Append(stdout,
          Out("banner", <<"Starting interactive chat (type 'exit' to quit)">>))
    /\ history' = <<>>
    /\ pc' = "await"
    /\ UNCHANGED <<command, argText, to, chatModel, keyPresent, input, turnStart,
                   res, net, inflight, result>>

\* one iteration of the loop up to the suspension at send().await
ChatReadLine ==
    /\ pc = "await"
    /\ stdout' = Append(stdout, Out("prompt", <<"You: ">>))
    /\ turnStart' = history
    /\ res' = NoRes
    /\ \E read \in StdinReads(Lines) :
        IF ~read.ok
        THEN /\ pc' = "done"
             /\ result' = Ended("IoError")
             /\ UNCHANGED <<history, input, net, inflight>>
        ELSE
            /\ input' = trim(read.val)
            /\ IF eq_ignore_ascii_case(input', exit)
               THEN /\ pc' = "done"
                    /\ result' = Ended("Ok")
                    /\ UNCHANGED <<history, net, inflight>>
               ELSE /\ Len(net) < MaxTurns
                    /\ history' = Append(history, UserMessage(input'))
                    /\ IF ~EnvVar.ok
                       THEN /\ pc' = "done"
                            /\ result' = [kind |-> "Panic", status |-> 0,
                                          text |-> <<"AI_API_KEY not set">>]
                            /\ UNCHANGED <<net, inflight>>
                       ELSE /\ net' = Append(net, Payload(chatModel, history'))
                            /\ inflight' = inflight + 1
                            /\ pc' = "sending"
                            /\ UNCHANGED result
    /\ UNCHANGED <<command, argText, to, chatModel, keyPresent>>

\* the rest of the iteration, once send().await has returned
ChatResponse ==
    /\ pc = "sending"
    /\ \E r \in SendOutcomes :
        /\ res' = r
        /\ inflight' = inflight - 1
        /\ IF r.kind = "neterr"
           THEN /\ pc' = "done"
                /\ result' = Ended("ReqwestError")
                /\ UNCHANGED <<history, stdout>>
           ELSE IF ~from_json(r.body).ok
           THEN /\ pc' = "done"
                /\ result' = Ended("JsonError")
                /\ UNCHANGED <<history, stdout>>
           ELSE IF from_json(r.body).choices # <<>>
           THEN /\ stdout' = Append(stdout,
                      Out("AI", from_json(r.body).choices[1].message.content))
                /\ history' = Append(history,
                      AssistantMessage(from_json(r.body).choices[1]))
                /\ pc' = "await"
                /\ UNCHANGED result
           ELSE /\ pc' = "await"
                /\ UNCHANGED <<history, stdout, result>>
    /\ UNCHANGED <<command, argText, to, chatModel, keyPresent, input, turnStart,
                   net>>

----------------------------------------------------------------------------

Next ==
    \/ Ask
    \/ Summarize
    \/ Translate
    \/ SendAiResponse
    \/ ChatStart
    \/ ChatReadLine
    \/ ChatResponse

Spec == Init /\ [][Next]_vars

----------------------------------------------------------------------------
(* Vocabulary of the properties, stated without the program's own helpers *)

\* every spelling of "exit" in upper and lower case letters
ExitSpellings ==
    { <<a, b, c, d>> : a \in {"e", "E"}, b \in {"x", "X"},
                       c \in {"i", "I"}, d \in {"t", "T"} }

IsPrefix(s, t) == Len(s) <= Len(t) /\ SubSeq(t, 1, Len(s)) = s

\* the last send() returned a success status whose body parsed
ParsedReply ==
    /\ res.kind = "http"
    /\ res.status \in 200..299
    /\ res.body.isJson
    /\ res.body.hasChoices

\* the call succeeded with at least one choice
SuccessfulReply == ParsedReply /\ res.body.choices # <<>>

\* success status, zero choices
EmptyReply == ParsedReply /\ res.body.choices = <<>>

\* the call failed: network failure, non-success status or unparseable body
FailedCall ==
    \/ res.kind = "neterr"
    \/ /\ res.kind = "http"
       /\ \/ res.status \notin 200..299
          \/ ~res.body.isJson
          \/ ~res.body.hasChoices

UserTurns == Cardinality({i \in DOMAIN history : history[i].role = "user"})

----------------------------------------------------------------------------
(* The claims *)

\* C1: in the chat loop every started request (SendingRequest) is followed by
\* a return to AwaitingInput with the process still running, whatever the
\* outcome of the call.
C1_SendingReturnsToAwaiting ==
    [][pc = "sending" => pc' = "await" /\ result' = Running]_vars

\* C2: after a chat turn whose call succeeds with at least one choice, the
\* transcript is the transcript T before the turn followed by exactly the
\* user message {user, u} and {assistant, first choice's content}.
C2_SuccessAppendsUserThenAssistant ==
    (pc = "await" /\ SuccessfulReply) =>
        history = turnStart \o
            << [role |-> "user", content |-> input],
               [role |-> "assistant",
                content |-> res.body.choices[1].message.content] >>

\* C2 witness: a successful turn on a non-empty transcript has completed.
C2_Witness ==
    /\ pc = "await"
    /\ SuccessfulReply
    /\ Len(turnStart) >= 2
    /\ Len(history) = Len(turnStart) + 2
    /\ res.body.choices[1].message.content # trim(res.body.choices[1].message.content)

\* C3: after a chat turn whose call fails (network failure, non-success
\* status, unparseable body) the transcript is T followed by the user message
\* only, and an error is surfaced to the operator.
C3_FailureKeepsUserMessageOnly ==
    (command = "Chat" /\ FailedCall) =>
        /\ history = turnStart \o <<[role |-> "user", content |-> input]>>
        /\ result.kind \notin {"running", "Ok"}

\* C4: the messages of every chat request are the entire transcript at that
\* moment; each request's messages are the previous request's, then the
\* assistant entry appended in between (if any), then the new user message;
\* and the transcript only ever grows at its end.
C4_FullTranscriptAppendOnly ==
    /\ [](command = "Chat" =>
            /\ pc = "sending" => net[Len(net)].messages = history
            /\ \A n \in 2..Len(net) :
                LET m == net[n].messages
                    p == net[n - 1].messages
                IN  /\ Len(m) \in {Len(p) + 1, Len(p) + 2}
                    /\ SubSeq(m, 1, Len(p)) = p
                    /\ m[Len(m)].role = "user"
                    /\ Len(m) = Len(p) + 2 => m[Len(p) + 1].role = "assistant")
    /\ [][IsPrefix(history, history')]_vars

\* C4 witness: a third request is outstanding, carrying the replies of the
\* earlier turns.
C4_Witness ==
    /\ command = "Chat"
    /\ pc = "sending"
    /\ Len(net) = 3
    /\ Len(net[2].messages) = 3
    /\ Len(net[3].messages) = 5
    /\ net[3].messages = history

\* C5: a response with a non-success status is never treated as a reply: it
\* yields an error carrying the status code and the body, nothing is printed
\* as an AI response, and in chat no assistant entry is appended.
C5_NonSuccessIsNeverAReply ==
    (res.kind = "http" /\ res.status \notin 200..299) =>
        /\ result = [kind |-> "ApiError", status |-> res.status,
                     text |-> res.body.text]
        /\ stdout = <<>> \/ stdout[Len(stdout)].kind \notin {"AI", "footer"}
        /\ command = "Chat" =>
              history = turnStart \o <<[role |-> "user", content |-> input]>>

\* C6: with the credential absent no POST is ever issued, and every command
\* that gets as far as a request (summarize or translate with its input
\* read, any chat turn) ends the run with the fatal missing-credential error.
C6_NoRequestWithoutCredential ==
    ~keyPresent =>
        /\ net = <<>>
        /\ inflight = 0
        /\ res = NoRes
        /\ (command \in {"Summarize", "Translate"} /\ pc = "done"
              /\ result.kind # "IoError") => result = Ended("MissingApiKey")
        /\ (command = "Chat" /\ history # <<>>) =>
              /\ pc = "done"
              /\ result = [kind |-> "Panic", status |-> 0,
                           text |-> <<"AI_API_KEY not set">>]

\* C6 witness: a chat turn was entered without the credential and the run
\* ended with the fatal error, no POST issued.
C6_Witness ==
    /\ ~keyPresent
    /\ command = "Chat"
    /\ history # <<>>
    /\ pc = "done"
    /\ result.kind = "Panic"
    /\ net = <<>>

\* C7: with the credential present every one-shot command (ask, summarize,
\* translate) that is run issues exactly one POST, every non-exit chat line
\* issues exactly one POST, and at most one POST is outstanding at any time.
C7_OnePostPerTurn ==
    /\ inflight <= 1
    /\ (keyPresent /\ pc = "done" /\ command \in {"Ask", "Summarize", "Translate"}
          /\ result.kind # "IoError") => Len(net) = 1
    /\ (keyPresent /\ command = "Chat") => Len(net) = UserTurns

\* C8: a success status with zero choices is a soft condition in every
\* command path: no error, the run goes on (chat) or ends normally, and the
\* operator is shown the "no response" notice.
C8_EmptyReplyShowsNotice ==
    EmptyReply =>
        /\ result.kind \in {"running", "Ok"}
        /\ command = "Chat" => pc = "await"
        /\ stdout # <<>>
        /\ stdout[Len(stdout)].kind = "notice"

\* C9: every message of the transcript and of every request sent has
\* non-empty content.
C9_ContentNonEmpty ==
    /\ \A i \in DOMAIN history : history[i].content # <<>>
    /\ \A n \in DOMAIN net : \A i \in DOMAIN net[n].messages :
          net[n].messages[i].content # <<>>

\* C10: a chat line that is "exit" in any letter case ends the loop at once:
\* the run ends normally, nothing is appended to the transcript and no POST
\* is issued for it.
C10_ExitTerminatesWithoutRequest ==
    [][(pc = "await" /\ input' \in ExitSpellings) =>
          /\ pc' = "done"
          /\ result' = Ended("Ok")
          /\ history' = history
          /\ net' = net
          /\ inflight' = 0]_vars

\* C10 witness: after two full turns a mixed-case "exit" ended the session.
C10_Witness ==
    /\ command = "Chat"
    /\ pc = "done"
    /\ input = <<"E", "x", "I", "t">>
    /\ Len(history) >= 4
    /\ Len(net) = 2
    /\ result = Ended("Ok")

====
